---- MODULE Spec2Model ----
(***************************************************************************)
(* A model of src/main.cpp of the nonmanifold-laplacian demo: main(), the  *)
(* vertex-separated tufted cover pipeline, the visualization of traced     *)
(* intrinsic edges, the UI callback and saveMatrix.                        *)
(*                                                                         *)
(* Numbers.  Lengths and mollification factors are integers in units of    *)
(* 1/FactorDen; "x *= .999" is (x * ShrinkNum) \div ShrinkDen, so that     *)
(* the product rounds as a floating-point product does.  Barycentric       *)
(* coordinates are exact rationals: a triple of integers and a             *)
(* denominator.                                                            *)
(***************************************************************************)
EXTENDS Integers, Sequences, FiniteSets, TLC

VARIABLES
  \* ---- main()
  pc,                 \* position of main
  exitCode,           \* "none", "0", "1", or "abort" (uncaught exception)
  stdoutText,         \* what was written to std::cout (sequence of items)
  stderrText,         \* what was written to std::cerr
  parseResult,        \* outcome of parser.ParseCLI
  opt,                \* parsed arguments: inputFilename, gui, mollifyFactorArg, ...
  mollifyFactor,      \* global, line 39
  withGUI,            \* global, line 42
  meshLoaded,         \* mesh / geometry built (line 262)
  laplacianBuilt,     \* buildTuftedLaplacian has run (line 267)
  files,              \* names of the files written by saveMatrix
  \* ---- generateVertexSeparatedTuftedCover()
  geomLen,            \* tuftedGeom->edgeLengths of the manifold mesh (line 72)
  tuftedEdgeLengths,  \* local EdgeData, lines 56/73
  mollifyCalls,       \* number of calls of mollifyIntrinsic
  handedLen,          \* lengths of tuftedIntrinsicGeom (line 80)
  intrinsicEdgeLengths, \* signpostTri->intrinsicEdgeLengths
  edgeIsOriginal,     \* signpostTri: e is an edge of the input mesh (not flipped)
  traceLen,           \* geometry: the length of the geodesic of each intrinsic edge
  stageLog,           \* the stages run so far, in order (repeats collapsed)
  callbackSet,        \* polyscope::state::userCallback == myCallback
  \* ---- generateVisualization()
  subdivLevel, bubbleScale, pointsPerTriEdge,
  vpc,                \* position inside generateVisualization
  vizCaller,          \* who called generateVisualization: "main" or "ui"
  eIdx,               \* position of the loop of line 113 in mesh.edges()
  oldLen,             \* line 119
  points,             \* line 122
  iPt,                \* i of line 131
  iInterp,            \* line 142
  sharedF,            \* line 138
  lines,              \* line 106
  tLog,               \* tInterp and baryInterp of each pass of the loop of line 142,
                      \* for the current pair of points
  registered,         \* polyscope structure "bubble tufted cover" and its quantity
  entryLen,           \* intrinsicEdgeLengths when generateVisualization was entered
  lastRun,            \* parameters and result of the last completed invocation
  \* ---- saveMatrix()
  spc, matrix, outFile, kOuter, itInner,
  \* ---- the vertex loop of lines 62-66
  sepc, origVert, inputVertexPositions, prePos, todoVerts

mainRest == <<exitCode, stdoutText, stderrText, parseResult, opt, mollifyFactor,
              withGUI, meshLoaded, laplacianBuilt, files>>
mainVars == <<pc, exitCode, stdoutText, stderrText, parseResult, opt, mollifyFactor,
              withGUI, meshLoaded, laplacianBuilt, files>>
coverVars == <<geomLen, tuftedEdgeLengths, mollifyCalls, handedLen,
               intrinsicEdgeLengths, edgeIsOriginal, traceLen, stageLog, callbackSet>>
paramVars == <<subdivLevel, bubbleScale, pointsPerTriEdge>>
vizVars == <<vpc, vizCaller, eIdx, oldLen, points, iPt, iInterp, sharedF, lines, tLog,
             registered, entryLen, lastRun>>
saveVars == <<spc, matrix, outFile, kOuter, itInner>>
sepVars == <<sepc, origVert, inputVertexPositions, prePos, todoVerts>>
vars == <<mainVars, coverVars, paramVars, vizVars, saveVars, sepVars>>

None == "none"

(***************************************************************************)
(* Bounds of the model.                                                    *)
(***************************************************************************)
MaxArgs == 3        \* command lines of at most this many arguments
MaxPoints == 2      \* the UI sets pointsPerTriEdge to -1 .. MaxPoints (or the default)
MaxDim == 2         \* saveMatrix: matrices of at most MaxDim x MaxDim
NumOrig == 2        \* vertex separation: vertices before the split
NumCopies == 2      \* vertex separation: vertices the split creates
BaryDen == 1000     \* resolution of the barycentric coordinates of traced points

(***************************************************************************)
(* saveMatrix (lines 161-189).  The matrix is an Eigen column-major sparse *)
(* matrix: a set of stored entries [row, col, val], zero-based, at most    *)
(* one per position; a stored value may be zero.                           *)
(***************************************************************************)
Dims == 1..MaxDim
Values == {0, 7}

StoredSets(r, c) ==
  LET Pos == (0..(r - 1)) \X (0..(c - 1))
  IN  UNION { { {[row |-> p[1], col |-> p[2], val |-> f[p]] : p \in S} :
                  f \in [S -> Values] } : S \in SUBSET Pos }

\* matrix.outerSize(): the number of columns of a column-major matrix
outerSize(m) == m.cols

\* InnerIterator(matrix, k): the rows stored in column k, ascending
InnerRows(m, k) == {e.row : e \in {x \in m.stored : x.col = k}}

EntryAt(m, r, c) == CHOOSE e \in m.stored : e.row = r /\ e.col = c

\* the zero-based line written instead of line 184 by a writer that forgets the +1
LineZeroBased(iRow, iCol, val) == <<iRow, iCol, val>>

\* line 184: outFile << (iRow + 1) << " " << (iCol + 1) << " " << val
Line(iRow, iCol, val) == <<iRow + 1, iCol + 1, val>>

NoMatrix == [rows |-> 0, cols |-> 0, stored |-> {}]

SaveIdle ==
  /\ spc = "idle" /\ matrix = NoMatrix /\ outFile = <<>> /\ kOuter = 0 /\ itInner = {}

SaveInit ==
  /\ spc = "open"
  /\ \E r \in Dims, c \in Dims : \E s \in StoredSets(r, c) :
       matrix = [rows |-> r, cols |-> c, stored |-> s]
  /\ outFile = <<>>
  /\ kOuter = 0
  /\ itInner = {}

\* lines 168-171, 176: the file opens (empty), or the open fails and saveMatrix throws
SaveOpen ==
  /\ spc = "open"
  /\ \/ /\ outFile' = <<>>
        /\ spc' = "outer"
     \/ /\ outFile' = <<>>
        /\ spc' = "failed"
  /\ kOuter' = 0
  /\ UNCHANGED <<matrix, itInner>>

\* line 178-179: the outer loop test, and the construction of the inner iterator
SaveOuter ==
  /\ spc = "outer"
  /\ IF kOuter < outerSize(matrix)
       THEN /\ itInner' = InnerRows(matrix, kOuter)
            /\ spc' = "inner"
            /\ UNCHANGED <<kOuter, outFile>>
       ELSE /\ spc' = "closed"      \* line 188
            /\ UNCHANGED <<kOuter, outFile, itInner>>
  /\ UNCHANGED matrix

Min(S) == CHOOSE x \in S : \A y \in S : x <= y

\* lines 179-185: one entry of column kOuter, or the end of the column
SaveInner ==
  /\ spc = "inner"
  /\ IF itInner # {}
       THEN LET iRow == Min(itInner)
                val == EntryAt(matrix, iRow, kOuter).val
            IN  /\ outFile' = Append(outFile, Line(iRow, kOuter, val))
                /\ itInner' = itInner \ {iRow}
                /\ UNCHANGED <<kOuter, spc>>
       ELSE /\ kOuter' = kOuter + 1
            /\ spc' = "outer"
            /\ UNCHANGED <<outFile, itInner>>
  /\ UNCHANGED matrix

(***************************************************************************)
(* The vertex loop of generateVertexSeparatedTuftedCover (lines 62-66).    *)
(* separateNonmanifoldVertices returns origVert: an original vertex is its *)
(* own origin, a new vertex maps to the original vertex it was split from. *)
(* The position container grows with the mesh; the entry of a new vertex   *)
(* holds a default value until the loop assigns it.                        *)
(***************************************************************************)
OrigVerts == 1..NumOrig
NewVerts == (NumOrig + 1)..(NumOrig + NumCopies)
Verts == OrigVerts \cup NewVerts
Positions == {"p", "q"}
DefaultPos == "zero"

SepIdle ==
  /\ sepc = "idle" /\ origVert = <<>> /\ inputVertexPositions = <<>>
  /\ prePos = <<>> /\ todoVerts = {}

SepInit ==
  /\ sepc = "loop"
  /\ origVert \in {f \in [Verts -> OrigVerts] : \A v \in OrigVerts : f[v] = v}
  /\ prePos \in [OrigVerts -> Positions]
  /\ \E fresh \in [NewVerts -> Positions \cup {DefaultPos}] :
       inputVertexPositions = [v \in Verts |-> IF v \in OrigVerts THEN prePos[v] ELSE fresh[v]]
  /\ todoVerts = Verts

\* the assignment with its two sides exchanged
AssignReversed(p, v) == [p EXCEPT ![origVert[v]] = p[v]]

\* line 64: inputVertexPositions[v] = inputVertexPositions[origVert[v]]
AssignPosition(p, v) == [p EXCEPT ![v] = p[origVert[v]]]

\* lines 63-65: one iteration of the loop, the vertices in any order
SepStep ==
  /\ sepc = "loop"
  /\ todoVerts # {}
  /\ \E v \in todoVerts :
       /\ inputVertexPositions' = AssignPosition(inputVertexPositions, v)
       /\ todoVerts' = todoVerts \ {v}
  /\ UNCHANGED <<sepc, origVert, prePos>>

\* line 66: the loop has ended; refreshQuantities
SepRefresh ==
  /\ sepc = "loop"
  /\ todoVerts = {}
  /\ sepc' = "done"
  /\ UNCHANGED <<origVert, inputVertexPositions, prePos, todoVerts>>

(***************************************************************************)
(* main (lines 214-300): the command line.                                 *)
(* An argument is one of the tokens below; ParseCLI reads them in order    *)
(* and throws at the first -h (args::Help) or at the first argument it     *)
(* cannot accept (args::ParseError): an unknown flag, or a second          *)
(* positional.                                                             *)
(***************************************************************************)
FactorDen == 1000000          \* lengths and factors are multiples of 1e-6
DefaultMollifyFactor == 1     \* 1e-6, the default of --mollifyFactor (line 223)
InitialMollifyFactor == 0     \* float mollifyFactor = 0. (line 39)
MollifyArgs == {-1, 0, 2}     \* values given with --mollifyFactor

Tokens == {[flag |-> x, value |-> 0] :
             x \in {"-h", "--bogus", "mesh", "--gui", "--writeLaplacian", "--writeMass"}}
            \cup {[flag |-> "--mollifyFactor", value |-> f] : f \in MollifyArgs}

Argvs == UNION {[1..n -> Tokens] : n \in 0..MaxArgs}

\* the argument objects of lines 219-229 before parsing
NoArgs == [inputFilename |-> None, gui |-> FALSE, mollifySet |-> FALSE,
           mollifyFactorArg |-> DefaultMollifyFactor,
           writeLaplacian |-> FALSE, writeMass |-> FALSE]

RECURSIVE ParseFrom(_, _, _)
ParseFrom(argv, i, acc) ==
  IF i > Len(argv) THEN [result |-> "ok", args |-> acc]
  ELSE LET a == argv[i].flag
       IN  CASE a = "-h" -> [result |-> "help", args |-> acc]
             [] a = "--bogus" -> [result |-> "error", args |-> acc]
             [] a = "mesh" ->
                  IF acc.inputFilename # None
                    THEN [result |-> "error", args |-> acc]
                    ELSE ParseFrom(argv, i + 1, [acc EXCEPT !.inputFilename = "mesh"])
             [] a = "--gui" -> ParseFrom(argv, i + 1, [acc EXCEPT !.gui = TRUE])
             [] a = "--writeLaplacian" ->
                  ParseFrom(argv, i + 1, [acc EXCEPT !.writeLaplacian = TRUE])
             [] a = "--writeMass" ->
                  ParseFrom(argv, i + 1, [acc EXCEPT !.writeMass = TRUE])
             [] OTHER ->
                  ParseFrom(argv, i + 1,
                            [acc EXCEPT !.mollifySet = TRUE,
                                        !.mollifyFactorArg = argv[i].value])

\* parser.ParseCLI(argc, argv), line 234
ParseCLIResult(argv) == ParseFrom(argv, 1, NoArgs)

\* the stream of a usage error written where the help text goes
UsageErrorToStdout == "cout"

\* line 239-240: the parse error and the usage go to std::cerr
ParseErrorStream == "cerr"

\* line 246: the usage for a missing mesh argument goes to std::cout
MissingInputStream == "cout"

ExitZeroOnMissing == "0"

\* line 247: EXIT_FAILURE
MissingInputExit == "1"

Write(stream, target, items) ==
  IF stream = target THEN items ELSE <<>>

\* lines 233-242
ParseCLI ==
  /\ pc = "parse"
  /\ \E argv \in Argvs :
       LET r == ParseCLIResult(argv)
       IN  /\ parseResult' = r.result
           /\ opt' = r.args
           /\ CASE r.result = "help" ->
                     /\ stdoutText' = stdoutText \o <<"usage">>
                     /\ exitCode' = "0"
                     /\ pc' = "exited"
                     /\ UNCHANGED stderrText
                [] r.result = "error" ->
                     /\ stdoutText' = stdoutText \o
                                        Write(ParseErrorStream, "cout", <<"what", "usage">>)
                     /\ stderrText' = stderrText \o
                                        Write(ParseErrorStream, "cerr", <<"what", "usage">>)
                     /\ exitCode' = "1"
                     /\ pc' = "exited"
                [] OTHER ->
                     /\ pc' = "checkInput"
                     /\ UNCHANGED <<stdoutText, stderrText, exitCode>>
  /\ UNCHANGED <<mollifyFactor, withGUI, meshLoaded, laplacianBuilt, files>>
  /\ UNCHANGED <<coverVars, paramVars, vizVars, saveVars, sepVars>>

\* lines 245-248
CheckInput ==
  /\ pc = "checkInput"
  /\ IF opt.inputFilename = None
       THEN /\ stdoutText' = stdoutText \o Write(MissingInputStream, "cout", <<"usage">>)
            /\ stderrText' = stderrText \o Write(MissingInputStream, "cerr", <<"usage">>)
            /\ exitCode' = MissingInputExit
            /\ pc' = "exited"
       ELSE /\ pc' = "setOptions"
            /\ UNCHANGED <<stdoutText, stderrText, exitCode>>
  /\ UNCHANGED <<parseResult, opt, mollifyFactor, withGUI, meshLoaded, laplacianBuilt, files>>
  /\ UNCHANGED <<coverVars, paramVars, vizVars, saveVars, sepVars>>

\* lines 251-253
SetOptions ==
  /\ pc = "setOptions"
  /\ withGUI' = opt.gui
  /\ mollifyFactor' = opt.mollifyFactorArg
  /\ pc' = "load"
  /\ UNCHANGED <<exitCode, stdoutText, stderrText, parseResult, opt, meshLoaded,
                 laplacianBuilt, files>>
  /\ UNCHANGED <<coverVars, paramVars, vizVars, saveVars, sepVars>>

\* an exception nobody catches ends the process without an exit code of main
Abort ==
  /\ exitCode' = "abort"
  /\ pc' = "exited"

\* lines 256-262: the mesh file is read, or the reader throws
LoadMesh ==
  /\ pc = "load"
  /\ \/ /\ meshLoaded' = TRUE
        /\ pc' = "build"
        /\ UNCHANGED exitCode
     \/ /\ Abort
        /\ UNCHANGED meshLoaded
  /\ UNCHANGED <<stdoutText, stderrText, parseResult, opt, mollifyFactor, withGUI,
                 laplacianBuilt, files>>
  /\ UNCHANGED <<coverVars, paramVars, vizVars, saveVars, sepVars>>

\* lines 265-268
BuildLaplacian ==
  /\ pc = "build"
  /\ laplacianBuilt' = TRUE
  /\ stdoutText' = stdoutText \o <<"Building tufted Laplacian...", "...done!">>
  /\ pc' = "writeLaplacian"
  /\ UNCHANGED <<exitCode, stderrText, parseResult, opt, mollifyFactor, withGUI,
                 meshLoaded, files>>
  /\ UNCHANGED <<coverVars, paramVars, vizVars, saveVars, sepVars>>

\* a call of saveMatrix from main: the file is written, or the open fails (line 170)
SaveFromMain(requested, name, next) ==
  /\ IF requested
       THEN \/ /\ files' = files \cup {name}
               /\ stdoutText' = stdoutText \o <<"Writing sparse matrix to">>
               /\ pc' = next
               /\ UNCHANGED exitCode
            \/ /\ Abort
               /\ stdoutText' = stdoutText \o <<"Writing sparse matrix to">>
               /\ UNCHANGED files
       ELSE /\ pc' = next
            /\ UNCHANGED <<files, stdoutText, exitCode>>
  /\ UNCHANGED <<stderrText, parseResult, opt, mollifyFactor, withGUI, meshLoaded,
                 laplacianBuilt>>
  /\ UNCHANGED <<coverVars, paramVars, vizVars, saveVars, sepVars>>

\* lines 271-273
WriteLaplacian ==
  /\ pc = "writeLaplacian"
  /\ SaveFromMain(opt.writeLaplacian, "tufted_laplacian.spmat", "writeMass")

\* lines 274-276
WriteMass ==
  /\ pc = "writeMass"
  /\ SaveFromMain(opt.writeMass, "tufted_lumped_mass.spmat", "gui")

\* the order of the statements of generateVertexSeparatedTuftedCover with the
\* mollification moved behind the construction of the signpost triangulation
StageAfterMollifyLate(s) ==
  CASE s = "copy" -> "buildCover"
    [] s = "buildCover" -> "separate"
    [] s = "separate" -> "manifold"
    [] s = "manifold" -> "intrinsicGeom"
    [] s = "intrinsicGeom" -> "signpost"
    [] s = "signpost" -> "mollify"
    [] s = "mollify" -> "flip"
    [] s = "flip" -> "visualize"

\* lines 49-89 and 285-286: the order of the statements
StageAfter(s) ==
  CASE s = "copy" -> "buildCover"
    [] s = "buildCover" -> "separate"
    [] s = "separate" -> "manifold"
    [] s = "manifold" -> "mollify"
    [] s = "mollify" -> "intrinsicGeom"
    [] s = "intrinsicGeom" -> "signpost"
    [] s = "signpost" -> "flip"
    [] s = "flip" -> "visualize"

\* lines 278-285 and 299
GuiCheck ==
  /\ pc = "gui"
  /\ IF withGUI
       THEN /\ pc' = "copy"
            /\ stdoutText' = stdoutText \o <<"Generating visualization...">>
            /\ UNCHANGED exitCode
       ELSE /\ exitCode' = "0"
            /\ pc' = "exited"
            /\ UNCHANGED stdoutText
  /\ UNCHANGED <<stderrText, parseResult, opt, mollifyFactor, withGUI, meshLoaded,
                 laplacianBuilt, files>>
  /\ UNCHANGED <<coverVars, paramVars, vizVars, saveVars, sepVars>>

(***************************************************************************)
(* Geometry.  The model follows two intrinsic edges of the triangulation   *)
(* over a quad of the manifold mesh with the faces F1 = (1,2,3) and        *)
(* F2 = (2,4,3): "side", the edge 1 -> 2, and "diag", the diagonal 2 -> 3, *)
(* which flipToDelaunay may flip into 1 -> 4.  The flipped diagonal        *)
(* crosses the extrinsic edge 2-3 at its midpoint, half way along.         *)
(***************************************************************************)
Edges == {"side", "diag"}
EdgeOrder == <<"side", "diag">>          \* the order of mesh.edges()
LenChoices == {1000000, 1500001}
NoLen == [e \in Edges |-> 0]
Lens == [Edges -> LenChoices]

FaceVerts(f) == IF f = 1 THEN <<1, 2, 3>> ELSE <<2, 4, 3>>
Faces == {1, 2}

Sum(len) == len["side"] + len["diag"]

\* mollifyIntrinsic of geometry-central: every length grows by the factor times
\* the mean edge length
mollifyIntrinsic(len, factor) ==
  LET delta == ((Sum(len) \div Cardinality(Edges)) * factor) \div FactorDen
  IN  [e \in Edges |-> len[e] + delta]

\* the test of line 76 with >= for >
MollifyRequestedAtZero(factor) == factor >= 0

\* line 76
MollifyRequested(factor) == factor > 0

LogStage(s) ==
  IF stageLog # <<>> /\ stageLog[Len(stageLog)] = s THEN stageLog ELSE Append(stageLog, s)

coverData == <<geomLen, tuftedEdgeLengths, mollifyCalls, handedLen,
               intrinsicEdgeLengths, edgeIsOriginal, traceLen>>

AtStage(s) ==
  /\ pc = s
  /\ pc' = StageAfter(s)
  /\ UNCHANGED <<mainRest, callbackSet, paramVars, saveVars, sepVars>>

\* lines 52-56: the copy of the mesh and of the geometry
CopyMesh ==
  /\ AtStage("copy")
  /\ \E len \in Lens : tuftedEdgeLengths' = len
  /\ UNCHANGED <<geomLen, mollifyCalls, handedLen, intrinsicEdgeLengths, edgeIsOriginal,
                 traceLen, stageLog, vizVars>>

\* line 59
BuildCover ==
  /\ AtStage("buildCover")
  /\ stageLog' = LogStage("cover")
  /\ UNCHANGED <<coverData, vizVars>>

\* lines 62-66 (the loop itself is SepStep)
SeparateVertices ==
  /\ AtStage("separate")
  /\ stageLog' = LogStage("separate")
  /\ UNCHANGED <<coverData, vizVars>>

\* lines 69-73: the manifold mesh, and the edge lengths its geometry gives
Manifoldize ==
  /\ AtStage("manifold")
  /\ stageLog' = LogStage("manifold")
  /\ \E len \in Lens :
       /\ geomLen' = len
       /\ tuftedEdgeLengths' = len
  /\ UNCHANGED <<mollifyCalls, handedLen, intrinsicEdgeLengths, edgeIsOriginal, traceLen,
                 vizVars>>

\* lines 76-78
Mollify ==
  /\ AtStage("mollify")
  /\ IF MollifyRequested(mollifyFactor)
       THEN /\ tuftedEdgeLengths' = mollifyIntrinsic(tuftedEdgeLengths, mollifyFactor)
            /\ mollifyCalls' = mollifyCalls + 1
            /\ stageLog' = LogStage("mollify")
       ELSE UNCHANGED <<tuftedEdgeLengths, mollifyCalls, stageLog>>
  /\ UNCHANGED <<geomLen, handedLen, intrinsicEdgeLengths, edgeIsOriginal, traceLen,
                 vizVars>>

\* line 80
MakeIntrinsicGeom ==
  /\ AtStage("intrinsicGeom")
  /\ handedLen' = tuftedEdgeLengths
  /\ UNCHANGED <<geomLen, tuftedEdgeLengths, mollifyCalls, intrinsicEdgeLengths,
                 edgeIsOriginal, traceLen, stageLog, vizVars>>

\* line 84: the triangulation starts as the input mesh with the lengths it is given
MakeSignpost ==
  /\ AtStage("signpost")
  /\ intrinsicEdgeLengths' = handedLen
  /\ edgeIsOriginal' = [e \in Edges |-> TRUE]
  /\ stageLog' = LogStage("signpost")
  /\ UNCHANGED <<geomLen, tuftedEdgeLengths, mollifyCalls, handedLen, traceLen, vizVars>>

\* line 87: the diagonal stays, or is flipped and gets the length of the other diagonal
FlipToDelaunay ==
  /\ AtStage("flip")
  /\ stageLog' = LogStage("flip")
  /\ \/ /\ traceLen' = intrinsicEdgeLengths
        /\ UNCHANGED <<intrinsicEdgeLengths, edgeIsOriginal>>
     \/ \E l \in LenChoices :
          /\ intrinsicEdgeLengths' = [intrinsicEdgeLengths EXCEPT !["diag"] = l]
          /\ edgeIsOriginal' = [edgeIsOriginal EXCEPT !["diag"] = FALSE]
          /\ traceLen' = intrinsicEdgeLengths'
  /\ UNCHANGED <<geomLen, tuftedEdgeLengths, mollifyCalls, handedLen, vizVars>>

\* line 286: main calls generateVisualization
VisualizeFromMain ==
  /\ pc = "visualize"
  /\ vpc = "idle"
  /\ pc' = "inViz"
  /\ vpc' = "begin"
  /\ vizCaller' = "main"
  /\ UNCHANGED <<mainRest, coverVars, paramVars, saveVars, sepVars>>
  /\ UNCHANGED <<eIdx, oldLen, points, iPt, iInterp, sharedF, lines, tLog, registered,
                 entryLen, lastRun>>

\* lines 289-296: the callback is installed and polyscope::show() takes over
SetCallback ==
  /\ pc = "callback"
  /\ callbackSet' = TRUE
  /\ stdoutText' = stdoutText \o <<"...done!">>
  /\ pc' = "show"
  /\ UNCHANGED <<exitCode, stderrText, parseResult, opt, mollifyFactor, withGUI,
                 meshLoaded, laplacianBuilt, files>>
  /\ UNCHANGED <<coverData, stageLog, paramVars, vizVars, saveVars, sepVars>>

(***************************************************************************)
(* SurfacePoints.  A point is a vertex, a point of the extrinsic edge 2-3  *)
(* (coords = <<t>>, t/den of the way from 2 to 3), or a point of a face    *)
(* (coords = barycentric numerators over den, in the order of FaceVerts).  *)
(***************************************************************************)
VertexPoint(v) == [type |-> "Vertex", id |-> v, coords |-> <<>>, den |-> 1]
EdgePoint(t) == [type |-> "Edge", id |-> 1, coords |-> <<t>>, den |-> BaryDen]
FacePoint(f, c, d) == [type |-> "Face", id |-> f, coords |-> c, den |-> d]

tailVertex(e) == IF e = "side" THEN 1 ELSE IF edgeIsOriginal[e] THEN 2 ELSE 1
tipVertex(e) == IF e = "side" THEN 2 ELSE IF edgeIsOriginal[e] THEN 3 ELSE 4

\* SignpostIntrinsicTriangulation::traceHalfedge(he, false): an edge of the input mesh
\* is reported by its two vertices; any other edge is traced from its first vertex for
\* the length intrinsicEdgeLengths[e], and the trace ends where that length is used up
traceHalfedge(e) ==
  IF edgeIsOriginal[e]
    THEN <<VertexPoint(tailVertex(e)), VertexPoint(tipVertex(e))>>
    ELSE LET l == intrinsicEdgeLengths[e]
             G == traceLen[e]
             a == ((G - l) * BaryDen) \div G
             b == (l * BaryDen) \div G
         IN  IF 2 * l <= G
               THEN <<VertexPoint(1), FacePoint(1, <<BaryDen - 2 * b, b, b>>, BaryDen)>>
               ELSE <<VertexPoint(1), EdgePoint(BaryDen \div 2),
                      FacePoint(2, <<a, BaryDen - 2 * a, a>>, BaryDen)>>

IncidentFaces(p) ==
  CASE p.type = "Vertex" -> {f \in Faces : \E k \in 1..3 : FaceVerts(f)[k] = p.id}
    [] p.type = "Edge" -> Faces
    [] OTHER -> {p.id}

\* sharedFace(pA, pB): the first face both points lie in (0: there is none)
sharedFace(pA, pB) ==
  LET common == IncidentFaces(pA) \cap IncidentFaces(pB)
  IN  IF common = {} THEN 0 ELSE Min(common)

\* SurfacePoint::inFace(f): the same location in the barycentric coordinates of f
inFace(p, f) ==
  LET fv == FaceVerts(f)
      VC(k) == IF fv[k] = p.id THEN 1 ELSE 0
      EC(k) == IF fv[k] = 2 THEN p.den - p.coords[1]
               ELSE IF fv[k] = 3 THEN p.coords[1] ELSE 0
  IN  CASE p.type = "Vertex" -> FacePoint(f, <<VC(1), VC(2), VC(3)>>, 1)
        [] p.type = "Edge" -> FacePoint(f, <<EC(1), EC(2), EC(3)>>, p.den)
        [] OTHER -> p

RECURSIVE GCD(_, _)
GCD(x, y) == IF y = 0 THEN x ELSE GCD(y, x % y)

\* the location of a point, whatever element it is expressed in
Location(p) ==
  CASE p.type = "Vertex" -> <<"Vertex", p.id>>
    [] p.type = "Edge" ->
         LET t == p.coords[1]
             g == GCD(t, p.den)
         IN  IF t = 0 THEN <<"Vertex", 2>>
             ELSE IF t = p.den THEN <<"Vertex", 3>>
             ELSE <<"Edge", t \div g, p.den \div g>>
    [] OTHER ->
         LET c == p.coords
             fv == FaceVerts(p.id)
             g == GCD(GCD(c[1], c[2]), GCD(c[3], p.den))
             off == CHOOSE k \in 1..3 : fv[k] \notin {2, 3}
             k3 == CHOOSE k \in 1..3 : fv[k] = 3
         IN  IF \E k \in 1..3 : c[k] = p.den
               THEN <<"Vertex", fv[CHOOSE k \in 1..3 : c[k] = p.den]>>
             ELSE IF c[off] = 0
               THEN <<"Edge", c[k3] \div GCD(c[k3], p.den), p.den \div GCD(c[k3], p.den)>>
             ELSE <<"Face", p.id, <<c[1] \div g, c[2] \div g, c[3] \div g>>, p.den \div g>>

\* BubbleOffset::queryPoint(p): the position of the location of p on the surface
\* inflated by relativeScale
queryPoint(p, relativeScale) == [loc |-> Location(p), scale |-> relativeScale]

ShrinkNum == 999
ShrinkDen == 1000

\* the statement of line 120 left out
NoShrink(len, e) == len

\* line 120: intrinsicEdgeLengths[e] *= .999
Shrink(len, e) == [len EXCEPT ![e] = (@ * ShrinkNum) \div ShrinkDen]

\* the length divided by .999 again instead of the saved value
RestoreByDivision(len, e, old) == [len EXCEPT ![e] = (@ * ShrinkDen) \div ShrinkNum]

\* line 124: intrinsicEdgeLengths[e] = oldLen
Restore(len, e, old) == [len EXCEPT ![e] = old]

\* tInterp of an integer division
TInterpIntegerDivision(k, P) == [num |-> (k + 1) \div (P + 1), den |-> 1]

\* line 143: tInterp = static_cast<double>(iInterp + 1) / (pointsPerTriEdge + 1)
TInterp(k, P) == [num |-> k + 1, den |-> P + 1]

\* line 145: (1. - tInterp) * pAF.faceCoords + tInterp * pBF.faceCoords
BaryInterp(t, pAF, pBF) ==
  LET C(k) == (t.den - t.num) * pAF.coords[k] * pBF.den + t.num * pBF.coords[k] * pAF.den
  IN  [coords |-> <<C(1), C(2), C(3)>>, den |-> t.den * pAF.den * pBF.den]

DefaultSubdivLevel == 3
DefaultBubbleScale == 200       \* .2, in thousandths
DefaultPointsPerTriEdge == 10
SubdivChoices == {DefaultSubdivLevel, DefaultSubdivLevel + 1}
ScaleChoices == {0, DefaultBubbleScale}
PointChoices == (-1..MaxPoints) \cup {DefaultPointsPerTriEdge}

NoRun == [valid |-> FALSE, params |-> <<>>, surface |-> <<>>, curves |-> <<>>]
NoStructure == [surface |-> <<>>, hasCurves |-> FALSE, curves |-> <<>>]

\* a curve list that outlives the call
LinesKept == lines

\* line 106: std::vector<std::vector<Vector3>> lines, a new local of each call
FreshLines == <<>>

vizFrame == <<mainRest, coverData, stageLog, callbackSet, paramVars, saveVars, sepVars>>

\* lines 94-106: the surface is registered anew (replacing the structure of that name
\* and its quantities), the BubbleOffset and the empty outputs are made
VizBegin ==
  /\ vpc = "begin"
  /\ registered' = [surface |-> <<subdivLevel, bubbleScale>>, hasCurves |-> FALSE,
                    curves |-> <<>>]
  /\ lines' = FreshLines
  /\ eIdx' = 1
  /\ entryLen' = intrinsicEdgeLengths
  /\ vpc' = "edge"
  /\ stageLog' = LogStage("visualization")
  /\ UNCHANGED <<pc, mainRest, coverData, callbackSet, paramVars, saveVars, sepVars>>
  /\ UNCHANGED <<vizCaller, oldLen, points, iPt, iInterp, sharedF, tLog, lastRun>>

\* lines 113-119: the loop over the edges; e, he and oldLen
VizEdge ==
  /\ vpc = "edge"
  /\ IF eIdx <= Len(EdgeOrder)
       THEN /\ oldLen' = intrinsicEdgeLengths[EdgeOrder[eIdx]]
            /\ vpc' = "shrink"
       ELSE /\ vpc' = "publish"
            /\ UNCHANGED oldLen
  /\ UNCHANGED <<pc, mainRest, coverVars, paramVars, saveVars, sepVars>>
  /\ UNCHANGED <<vizCaller, eIdx, points, iPt, iInterp, sharedF, lines, tLog, registered,
                 entryLen, lastRun>>

\* line 120
VizShrink ==
  /\ vpc = "shrink"
  /\ intrinsicEdgeLengths' = Shrink(intrinsicEdgeLengths, EdgeOrder[eIdx])
  /\ vpc' = "trace"
  /\ UNCHANGED <<pc, mainRest, paramVars, saveVars, sepVars>>
  /\ UNCHANGED <<geomLen, tuftedEdgeLengths, mollifyCalls, handedLen, edgeIsOriginal,
                 traceLen, stageLog, callbackSet>>
  /\ UNCHANGED <<vizCaller, eIdx, oldLen, points, iPt, iInterp, sharedF, lines, tLog,
                 registered, entryLen, lastRun>>

\* line 122
VizTrace ==
  /\ vpc = "trace"
  /\ points' = traceHalfedge(EdgeOrder[eIdx])
  /\ vpc' = "restore"
  /\ UNCHANGED <<pc, mainRest, coverVars, paramVars, saveVars, sepVars>>
  /\ UNCHANGED <<vizCaller, eIdx, oldLen, iPt, iInterp, sharedF, lines, tLog, registered,
                 entryLen, lastRun>>

\* line 124
VizRestore ==
  /\ vpc = "restore"
  /\ intrinsicEdgeLengths' = Restore(intrinsicEdgeLengths, EdgeOrder[eIdx], oldLen)
  /\ vpc' = "first"
  /\ UNCHANGED <<pc, mainRest, paramVars, saveVars, sepVars>>
  /\ UNCHANGED <<geomLen, tuftedEdgeLengths, mollifyCalls, handedLen, edgeIsOriginal,
                 traceLen, stageLog, callbackSet>>
  /\ UNCHANGED <<vizCaller, eIdx, oldLen, points, iPt, iInterp, sharedF, lines, tLog,
                 registered, entryLen, lastRun>>

\* lines 109-112: pushLinePoint
pushLinePoint(ls, p) ==
  [ls EXCEPT ![Len(ls)] = Append(@, queryPoint(p, bubbleScale))]

\* lines 126-129: a new line, and its first point
VizFirst ==
  /\ vpc = "first"
  /\ lines' = pushLinePoint(Append(lines, <<>>), points[1])
  /\ iPt' = 0
  /\ tLog' = <<>>
  /\ vpc' = "segment"
  /\ UNCHANGED <<pc, mainRest, coverVars, paramVars, saveVars, sepVars>>
  /\ UNCHANGED <<vizCaller, eIdx, oldLen, points, iInterp, sharedF, registered, entryLen,
                 lastRun>>

\* lines 131-140: the loop over the pairs of points (i counts from 0), the shared face
VizSegment ==
  /\ vpc = "segment"
  /\ IF iPt + 1 < Len(points)
       THEN /\ sharedF' = sharedFace(points[iPt + 1], points[iPt + 2])
            /\ iInterp' = 0
            /\ tLog' = <<>>
            /\ vpc' = "interp"
            /\ UNCHANGED eIdx
       ELSE /\ eIdx' = eIdx + 1
            /\ vpc' = "edge"
            /\ UNCHANGED <<sharedF, iInterp, tLog>>
  /\ UNCHANGED <<pc, mainRest, coverVars, paramVars, saveVars, sepVars>>
  /\ UNCHANGED <<vizCaller, oldLen, points, iPt, lines, registered, entryLen, lastRun>>

\* lines 142-151: one interpolated point, or the end of the loop and the point pB
VizInterp ==
  /\ vpc = "interp"
  /\ LET pA == points[iPt + 1]
         pB == points[iPt + 2]
         pAF == inFace(pA, sharedF)
         pBF == inFace(pB, sharedF)
         tInterp == TInterp(iInterp, pointsPerTriEdge)
         baryInterp == BaryInterp(tInterp, pAF, pBF)
         pInterp == FacePoint(sharedF, baryInterp.coords, baryInterp.den)
     IN  IF iInterp < pointsPerTriEdge
           THEN /\ lines' = pushLinePoint(lines, pInterp)
                /\ tLog' = Append(tLog, [t |-> tInterp, bary |-> baryInterp])
                /\ iInterp' = iInterp + 1
                /\ UNCHANGED <<iPt, vpc>>
           ELSE /\ lines' = pushLinePoint(lines, pB)
                /\ iPt' = iPt + 1
                /\ vpc' = "segment"
                /\ UNCHANGED <<iInterp, tLog>>
  /\ UNCHANGED <<pc, mainRest, coverVars, paramVars, saveVars, sepVars>>
  /\ UNCHANGED <<vizCaller, eIdx, oldLen, points, sharedF, registered, entryLen, lastRun>>

\* line 157: the curves replace the quantity "intrinsic edges"; the call returns
VizPublish ==
  /\ vpc = "publish"
  /\ registered' = [registered EXCEPT !.hasCurves = TRUE, !.curves = lines]
  /\ lastRun' = [valid |-> TRUE, params |-> <<subdivLevel, bubbleScale, pointsPerTriEdge>>,
                 surface |-> registered.surface, curves |-> lines]
  /\ vpc' = "idle"
  /\ pc' = IF vizCaller = "main" THEN "callback" ELSE "show"
  /\ UNCHANGED <<mainRest, coverVars, paramVars, saveVars, sepVars>>
  /\ UNCHANGED <<vizCaller, eIdx, oldLen, points, iPt, iInterp, sharedF, lines, tLog,
                 entryLen>>

(***************************************************************************)
(* myCallback (lines 191-212), called by polyscope::show() for each frame. *)
(***************************************************************************)
InCallback == pc = "show" /\ callbackSet /\ vpc = "idle"

uiFrame == <<mainVars, coverVars, saveVars, sepVars>>
vizLocals == <<vpc, vizCaller, eIdx, oldLen, points, iPt, iInterp, sharedF, lines, tLog,
               registered, entryLen>>

\* line 200
UISetSubdiv ==
  /\ InCallback
  /\ \E v \in SubdivChoices \ {subdivLevel} : subdivLevel' = v
  /\ lastRun' = NoRun
  /\ UNCHANGED <<uiFrame, vizLocals, bubbleScale, pointsPerTriEdge>>

\* line 201
UISetScale ==
  /\ InCallback
  /\ \E v \in ScaleChoices \ {bubbleScale} : bubbleScale' = v
  /\ lastRun' = NoRun
  /\ UNCHANGED <<uiFrame, vizLocals, subdivLevel, pointsPerTriEdge>>

\* line 202
UISetPoints ==
  /\ InCallback
  /\ \E v \in PointChoices \ {pointsPerTriEdge} : pointsPerTriEdge' = v
  /\ lastRun' = NoRun
  /\ UNCHANGED <<uiFrame, vizLocals, subdivLevel, bubbleScale>>

\* lines 204-206
UIRegenerate ==
  /\ InCallback
  /\ pc' = "inViz"
  /\ vpc' = "begin"
  /\ vizCaller' = "ui"
  /\ UNCHANGED <<mainRest, coverVars, paramVars, saveVars, sepVars>>
  /\ UNCHANGED <<eIdx, oldLen, points, iPt, iInterp, sharedF, lines, tLog, registered,
                 entryLen, lastRun>>

\* the window is closed: polyscope::show() returns, line 299
UIClose ==
  /\ pc = "show"
  /\ vpc = "idle"
  /\ exitCode' = "0"
  /\ pc' = "exited"
  /\ UNCHANGED <<stdoutText, stderrText, parseResult, opt, mollifyFactor, withGUI,
                 meshLoaded, laplacianBuilt, files>>
  /\ UNCHANGED <<coverVars, paramVars, vizVars, saveVars, sepVars>>

(***************************************************************************)
(* Specifications.                                                         *)
(***************************************************************************)
MainIdle ==
  /\ pc = "idle" /\ exitCode = "none" /\ stdoutText = <<>> /\ stderrText = <<>>
  /\ parseResult = "none" /\ opt = NoArgs /\ mollifyFactor = InitialMollifyFactor
  /\ withGUI = TRUE /\ meshLoaded = FALSE /\ laplacianBuilt = FALSE /\ files = {}

CoverStart ==
  /\ geomLen = NoLen /\ tuftedEdgeLengths = NoLen /\ mollifyCalls = 0
  /\ handedLen = NoLen /\ intrinsicEdgeLengths = NoLen
  /\ edgeIsOriginal = [e \in Edges |-> TRUE] /\ traceLen = NoLen
  /\ stageLog = <<>> /\ callbackSet = FALSE

VizStart ==
  /\ subdivLevel = DefaultSubdivLevel
  /\ bubbleScale = DefaultBubbleScale
  /\ pointsPerTriEdge = DefaultPointsPerTriEdge
  /\ vpc = "idle" /\ vizCaller = "none" /\ eIdx = 0 /\ oldLen = 0 /\ points = <<>>
  /\ iPt = 0 /\ iInterp = 0 /\ sharedF = 0 /\ lines = <<>> /\ tLog = <<>>
  /\ registered = NoStructure /\ entryLen = NoLen /\ lastRun = NoRun

\* the program at the entry of main: the globals of lines 28-45
Init ==
  /\ pc = "parse" /\ exitCode = "none" /\ stdoutText = <<>> /\ stderrText = <<>>
  /\ parseResult = "none" /\ opt = NoArgs /\ mollifyFactor = InitialMollifyFactor
  /\ withGUI = TRUE /\ meshLoaded = FALSE /\ laplacianBuilt = FALSE /\ files = {}
  /\ CoverStart
  /\ VizStart
  /\ SaveIdle
  /\ SepIdle

Next ==
  \/ ParseCLI \/ CheckInput \/ SetOptions \/ LoadMesh \/ BuildLaplacian
  \/ WriteLaplacian \/ WriteMass \/ GuiCheck
  \/ CopyMesh \/ BuildCover \/ SeparateVertices \/ Manifoldize \/ Mollify
  \/ MakeIntrinsicGeom \/ MakeSignpost \/ FlipToDelaunay \/ VisualizeFromMain
  \/ VizBegin \/ VizEdge \/ VizShrink \/ VizTrace \/ VizRestore \/ VizFirst
  \/ VizSegment \/ VizInterp \/ VizPublish
  \/ SetCallback \/ UISetSubdiv \/ UISetScale \/ UISetPoints \/ UIRegenerate \/ UIClose

Spec == Init /\ [][Next]_vars

\* saveMatrix alone, on every matrix of the bounds
InitSave == MainIdle /\ CoverStart /\ VizStart /\ SaveInit /\ SepIdle

NextSave ==
  \/ (SaveOpen /\ UNCHANGED <<mainVars, coverVars, paramVars, vizVars, sepVars>>)
  \/ (SaveOuter /\ UNCHANGED <<mainVars, coverVars, paramVars, vizVars, sepVars>>)
  \/ (SaveInner /\ UNCHANGED <<mainVars, coverVars, paramVars, vizVars, sepVars>>)

SpecSave == InitSave /\ [][NextSave]_vars

\* the vertex loop alone, on every split of the bounds
InitSep == MainIdle /\ CoverStart /\ VizStart /\ SaveIdle /\ SepInit

NextSep ==
  \/ (SepStep /\ UNCHANGED <<mainVars, coverVars, paramVars, vizVars, saveVars>>)
  \/ (SepRefresh /\ UNCHANGED <<mainVars, coverVars, paramVars, vizVars, saveVars>>)

SpecSep == InitSep /\ [][NextSep]_vars

(***************************************************************************)
(* Properties.                                                             *)
(***************************************************************************)
IsPrefix(s, t) == Len(s) <= Len(t) /\ \A i \in 1..Len(s) : s[i] = t[i]
Range(s) == {s[i] : i \in 1..Len(s)}
Max0(x) == IF x > 0 THEN x ELSE 0

\* C1: once generateVisualization has been entered, the intrinsic edge lengths equal
\* their values on entry at every program point except between the shrink of the
\* current edge and its restore; there only the current edge differs (it holds the
\* shrunk value, and oldLen holds the value on entry), and the only statement there
\* is the traceHalfedge call.  Hence the lengths are the entry values while
\* sharedFace, inFace, the interpolation and queryPoint run, after each trace and
\* after the loop.
NudgeRestoresLengths ==
  entryLen # NoLen =>
    IF vpc \in {"trace", "restore"}
      THEN /\ oldLen = entryLen[EdgeOrder[eIdx]]
           /\ intrinsicEdgeLengths = Shrink(entryLen, EdgeOrder[eIdx])
      ELSE intrinsicEdgeLengths = entryLen

\* C1 witness: the flipped diagonal, whose length .999 does not divide back exactly,
\* has been traced and restored
NudgeRestoredWitness ==
  /\ vpc = "first" /\ eIdx = 2 /\ ~edgeIsOriginal["diag"] /\ Len(points) = 3
  /\ oldLen = 1500001 /\ intrinsicEdgeLengths = entryLen

\* C2 (as amended): once the lengths are handed to the EdgeLengthGeometry, a factor
\* that is zero (or negative) means mollifyIntrinsic was not invoked and the lengths
\* are those of the manifold geometry; mollifyIntrinsic runs only for a strictly
\* positive factor; and without --mollifyFactor the factor is the default 1e-6, for
\* which mollifyIntrinsic does run.
ZeroFactorLeavesLengths ==
  handedLen # NoLen =>
    /\ mollifyFactor <= 0 => mollifyCalls = 0 /\ handedLen = geomLen
    /\ mollifyCalls > 0 => mollifyFactor > 0
    /\ ~opt.mollifySet =>
         /\ mollifyFactor = DefaultMollifyFactor
         /\ mollifyCalls = 1
         /\ handedLen = mollifyIntrinsic(geomLen, DefaultMollifyFactor)

\* C2 witness: --mollifyFactor 0 was given and the lengths were handed over unchanged
ZeroFactorWitness ==
  /\ handedLen # NoLen /\ opt.mollifySet /\ mollifyFactor = 0
  /\ handedLen = geomLen /\ mollifyCalls = 0

\* C2 as stated: a factor that is zero or unset leaves the lengths untouched and
\* mollifyIntrinsic is not invoked
ZeroOrUnsetLeavesLengths ==
  (handedLen # NoLen /\ (mollifyFactor = 0 \/ ~opt.mollifySet)) =>
    (mollifyCalls = 0 /\ handedLen = geomLen)

\* the last point of a polyline
LastOf(ln) == ln[Len(ln)]
StartPoint(e) == queryPoint(VertexPoint(tailVertex(e)), bubbleScale)
EndPoint(e) == queryPoint(VertexPoint(tipVertex(e)), bubbleScale)

SeparationKeepsPositions ==
  sepc # "idle" =>
    /\ \A v \in OrigVerts : inputVertexPositions[v] = prePos[v]
    /\ \A v \in Verts \ todoVerts : inputVertexPositions[v] = prePos[origVert[v]]
    /\ sepc = "done" => todoVerts = {}

\* C4 witness: the loop is done, the two copies come from different original
\* vertices, and these have different positions
SeparationWitness ==
  /\ sepc = "done" /\ origVert[NumOrig + 1] # origVert[NumOrig + 2]
  /\ prePos[1] # prePos[2]
  /\ inputVertexPositions[NumOrig + 1] # inputVertexPositions[NumOrig + 2]

MissingInput == parseResult = "ok" /\ opt.inputFilename = None
EarlyExit == parseResult \in {"help", "error"} \/ MissingInput

\* C5: when the process has ended, the exit code is 1 exactly when the parse failed or
\* the mesh argument is missing, and the usage was printed; it is 0 when help was
\* requested (usage printed) and when main ran to its end; on the three early exits
\* no mesh was loaded, no Laplacian built and no file written.
ExitCodes ==
  pc = "exited" =>
    /\ exitCode = "1" <=> (parseResult = "error" \/ MissingInput)
    /\ exitCode = "1" => "usage" \in Range(stdoutText) \cup Range(stderrText)
    /\ parseResult = "help" => exitCode = "0" /\ "usage" \in Range(stdoutText)
    /\ exitCode = "0" => (parseResult = "help" \/
                          (meshLoaded /\ laplacianBuilt /\ (withGUI => callbackSet)))
    /\ exitCode = "abort" => ~EarlyExit
    /\ EarlyExit => ~meshLoaded /\ ~laplacianBuilt /\ files = {} /\ stageLog = <<>>

\* C5 witness: the process ended with code 1 because the mesh argument was missing
ExitCodesWitness ==
  pc = "exited" /\ exitCode = "1" /\ MissingInput /\ opt.gui

\* C6 (as amended): a parse error is reported on standard error, message and usage,
\* with nothing on standard output; a missing mesh argument prints the usage alone,
\* on standard output, with nothing on standard error; both end with exit code 1.
UsageErrorStreams ==
  pc = "exited" =>
    /\ parseResult = "error" =>
         stderrText = <<"what", "usage">> /\ stdoutText = <<>> /\ exitCode = "1"
    /\ MissingInput =>
         stdoutText = <<"usage">> /\ stderrText = <<>> /\ exitCode = "1"

\* C6 witness: the process ended after a parse error
UsageErrorWitness ==
  pc = "exited" /\ parseResult = "error" /\ stderrText # <<>>

\* C6 as stated: every usage error puts the usage on standard error and not on
\* standard output
UsageErrorsOnStderr ==
  (pc = "exited" /\ exitCode = "1") =>
    ("usage" \in Range(stderrText) /\ "usage" \notin Range(stdoutText))

\* C7: when the loop of an invocation has ended, the intrinsic lengths are those of
\* the entry, there is exactly one polyline per edge (the list was built from
\* scratch), and if an invocation with the same parameters completed before with
\* none of them changed since, the surface and the polylines are those of that
\* invocation; once published, the registered curves are those polylines.
RegenerationIdempotent ==
  /\ vpc = "publish" =>
       /\ intrinsicEdgeLengths = entryLen
       /\ Len(lines) = Len(EdgeOrder)
       /\ lastRun.valid =>
            /\ lastRun.params = <<subdivLevel, bubbleScale, pointsPerTriEdge>>
            /\ lines = lastRun.curves
            /\ registered.surface = lastRun.surface
  /\ (vpc = "idle" /\ lastRun.valid) =>
       /\ registered.hasCurves
       /\ registered.curves = lastRun.curves
       /\ registered.surface = lastRun.surface

\* C7 witness: a regeneration from the UI, with the parameters of the previous
\* invocation, has finished its loop over a triangulation with a flipped edge
RegenerationWitness ==
  /\ vpc = "publish" /\ vizCaller = "ui" /\ lastRun.valid
  /\ ~edgeIsOriginal["diag"] /\ pointsPerTriEdge = 2

Stored == matrix.stored

\* C8: every line saveMatrix writes is row+1, column+1, value of a stored entry, with
\* the indices in 1..rows and 1..cols; when the file is closed it holds exactly one
\* line per stored entry (explicit zeros included) and nothing else.
SaveMatrixLines ==
  spc \in {"outer", "inner", "closed"} =>
    /\ \A i \in 1..Len(outFile) :
         /\ outFile[i][1] \in 1..matrix.rows
         /\ outFile[i][2] \in 1..matrix.cols
         /\ \E e \in Stored : outFile[i] = <<e.row + 1, e.col + 1, e.val>>
    /\ spc = "closed" =>
         /\ Len(outFile) = Cardinality(Stored)
         /\ Range(outFile) = {<<e.row + 1, e.col + 1, e.val>> : e \in Stored}

\* C8 witness: a file is closed for a matrix with three stored entries, one in the
\* last row and column and one an explicit zero
SaveMatrixWitness ==
  /\ spc = "closed" /\ Cardinality(Stored) = 3
  /\ \E e \in Stored : e.val = 0
  /\ \E e \in Stored : e.row = matrix.rows - 1 /\ e.col = matrix.cols - 1

PipelineOrder ==
  IF mollifyFactor > 0
    THEN <<"cover", "separate", "manifold", "mollify", "signpost", "flip", "visualization">>
    ELSE <<"cover", "separate", "manifold", "signpost", "flip", "visualization">>

\* C9: the stages run so far are a prefix of the pipeline order (mollify present
\* exactly for a positive factor); mollifyIntrinsic runs at most once, and has run
\* when the signpost triangulation is constructed for a positive factor;
\* generateVisualization is active (so an edge can be traced) only after
\* flipToDelaunay; a regeneration from the UI happens only with the callback
\* installed after the whole pipeline, and adds no stage.
StagesInOrder ==
  /\ IsPrefix(stageLog, PipelineOrder)
  /\ mollifyCalls <= 1
  /\ "signpost" \in Range(stageLog) => (mollifyCalls = 1 <=> mollifyFactor > 0)
  /\ vpc # "idle" => "flip" \in Range(stageLog) /\ pc = "inViz"
  /\ (vizCaller = "ui" \/ callbackSet) => stageLog = PipelineOrder

\* C9 witness: a regeneration from the UI is about to trace an edge, in a run that
\* mollified
StagesWitness ==
  vizCaller = "ui" /\ vpc = "trace" /\ mollifyCalls = 1 /\ stageLog = PipelineOrder

BarySum(c) == c[1] + c[2] + c[3]

\* the point the claim puts at parameter k/(P+1) between the points i and i+1
ExpectedInterp(pts, i, k, P) ==
  LET f == sharedFace(pts[i], pts[i + 1])
      A == inFace(pts[i], f)
      B == inFace(pts[i + 1], f)
      C(m) == (P + 1 - k) * A.coords[m] * B.den + k * B.coords[m] * A.den
  IN  FacePoint(f, <<C(1), C(2), C(3)>>, (P + 1) * A.den * B.den)

\* C10: while the interpolation loop runs, its k-th pass used t = k/(P+1), with
\* 0 < k < P+1 (so t is strictly inside (0,1), and increasing), and coordinates that
\* sum to 1; it makes P passes for P >= 0 and none for P <= 0 (no t is computed).
\* When the polyline of a trace of n points is complete it has n + (n-1)*max(P,0)
\* points: the traced points, and between the i-th and the next the P points
\* (1-t_k)*A + t_k*B of the shared face, in order.
InterpolationPoints ==
  /\ vpc \in {"interp", "segment"} =>
       /\ \A k \in 1..Len(tLog) :
            /\ tLog[k].t = [num |-> k, den |-> pointsPerTriEdge + 1]
            /\ 0 < tLog[k].t.num /\ tLog[k].t.num < tLog[k].t.den
            /\ BarySum(tLog[k].bary.coords) = tLog[k].bary.den
       /\ Len(tLog) <= Max0(pointsPerTriEdge)
       /\ (vpc = "segment" /\ iPt > 0) => Len(tLog) = Max0(pointsPerTriEdge)
  /\ (vpc = "segment" /\ iPt + 1 >= Len(points)) =>
       LET n == Len(points)
           P == Max0(pointsPerTriEdge)
           ln == lines[Len(lines)]
       IN  /\ n >= 1
           /\ Len(ln) = n + (n - 1) * P
           /\ \A i \in 1..n : ln[1 + (i - 1) * (P + 1)] = queryPoint(points[i], bubbleScale)
           /\ \A i \in 1..(n - 1) : \A k \in 1..P :
                /\ ln[1 + (i - 1) * (P + 1) + k]
                     = queryPoint(ExpectedInterp(points, i, k, P), bubbleScale)
                /\ BarySum(ExpectedInterp(points, i, k, P).coords)
                     = ExpectedInterp(points, i, k, P).den

\* C10 witness: the polyline of a trace of three points is complete with two
\* interpolated points per pair
InterpolationWitness ==
  /\ vpc = "segment" /\ iPt + 1 = Len(points) /\ Len(points) = 3
  /\ pointsPerTriEdge = 2 /\ Len(lines[Len(lines)]) = 7

====
